---- MODULE Spec2Model ----
(***************************************************************************)
(* Model of src/main.py: the cache-backed, permit-limited link fetcher     *)
(* get_links_from_page, the oracle adapter choose_next_link and the        *)
(* iteration loop explore_path.                                            *)
(*                                                                         *)
(* A title is a sequence of one-character strings, so that startswith,     *)
(* strip, lower and replace are computed on characters as Python does.     *)
(* Spec is one explore_path run (its fetch is task 0).  ConcSpec is a      *)
(* workload of NumTasks get_links_from_page coroutines sharing one cache   *)
(* and one semaphore on the event loop.                                    *)
(***************************************************************************)
EXTENDS Integers, Sequences, FiniteSets

(***************************************************************************)
(* Program constants.                                                      *)
(***************************************************************************)
\* MAX_RETRIES = 5 (line 21)
MAX_RETRIES == 5

\* asyncio.Semaphore(5) (line 159)
K == 5

(***************************************************************************)
(* Bounds of the model.                                                    *)
(***************************************************************************)
\* largest max_iterations an explore run is started with
MaxIter == 3

\* largest number of pages the source serves for one fetch
MaxPages == 2

\* number of concurrent get_links_from_page coroutines in ConcSpec
NumTasks == 6

(***************************************************************************)
(* Titles.                                                                 *)
(***************************************************************************)
T_A == <<"A">>
T_b == <<"b">>
T_a_b == <<"a", " ", "b">>
T_HelpB == <<"H", "e", "l", "p", ":", "b">>
T_FileA == <<"F", "i", "l", "e", ":", "A">>

\* titles a run is started from
Starts == {T_A, T_a_b}

\* targets a run is given
Targets == {<<" ", "a">>, <<"A", "_", "B">>, T_b}

\* link titles the source may put in a response
RawTitles == {T_A, T_b, T_HelpB, T_FileA}

\* raw replies of the oracle (response.text)
OracleReplies == {T_A, <<" ", "b", "\n">>, <<"z">>}

\* every title that can become a page_title
Nodes == Starts \cup RawTitles

\* continuation tokens the source may return; 0 stands for no "continue" key
Tokens == {1}

(***************************************************************************)
(* str.strip, str.lower, str.replace(" ", "_") and str.startswith          *)
(***************************************************************************)
UpperChars == <<"A", "B", "C", "D", "E", "F", "G", "H", "I", "J", "K", "L", "M",
                "N", "O", "P", "Q", "R", "S", "T", "U", "V", "W", "X", "Y", "Z">>

LowerChars == <<"a", "b", "c", "d", "e", "f", "g", "h", "i", "j", "k", "l", "m",
                "n", "o", "p", "q", "r", "s", "t", "u", "v", "w", "x", "y", "z">>

IsSpace(c) == c \in {" ", "\t", "\n", "\r"}

LowerChar(c) ==
    IF \E i \in DOMAIN UpperChars : UpperChars[i] = c
    THEN LowerChars[CHOOSE i \in DOMAIN UpperChars : UpperChars[i] = c]
    ELSE c

Strip(s) ==
    LET keep == {i \in DOMAIN s : ~IsSpace(s[i])}
    IN  IF keep = {} THEN <<>>
        ELSE LET lo == CHOOSE i \in keep : \A j \in keep : i <= j
                 hi == CHOOSE i \in keep : \A j \in keep : j <= i
             IN  SubSeq(s, lo, hi)

Lower(s) == [i \in DOMAIN s |-> LowerChar(s[i])]

ReplaceSpaces(s) == [i \in DOMAIN s |-> IF s[i] = " " THEN "_" ELSE s[i]]

\* x.strip().lower().replace(" ", "_") (line 162)
Normalize(s) == ReplaceSpaces(Lower(Strip(s)))

\* mutant: the titles are compared as written
SameTarget_Exact(page, target) == page = target

\* Normalize on every title of the model, tabulated
NormalForm == [x \in Nodes \cup Targets |-> Normalize(x)]

\* the comparison of line 162
SameTarget(page, target) == NormalForm[page] = NormalForm[target]

StartsWith(s, p) == Len(s) >= Len(p) /\ SubSeq(s, 1, Len(p)) = p

(***************************************************************************)
(* The namespace filter of lines 78-81.                                    *)
(***************************************************************************)
Denylist ==
    { <<"H", "e", "l", "p", ":">>,
      <<"T", "e", "m", "p", "l", "a", "t", "e", ":">>,
      <<"W", "i", "k", "i", "p", "e", "d", "i", "a", ":">>,
      <<"C", "a", "t", "é", "g", "o", "r", "i", "e", ":">>,
      <<"C", "a", "t", "e", "g", "o", "r", "y", ":">>,
      <<"P", "o", "r", "t", "a", "i", "l", ":">>,
      <<"A", "i", "d", "e", ":">>,
      <<"M", "o", "d", "è", "l", "e", ":">>,
      <<"D", "i", "s", "c", "u", "s", "s", "i", "o", "n", ":">>,
      <<"F", "i", "c", "h", "i", "e", "r", ":">>,
      <<"F", "i", "l", "e", ":">>,
      <<"W", "i", "k", "i", "p", "é", "d", "i", "a", ":">> }

IsDenylisted(link) == \E p \in Denylist : StartsWith(link, p)

\* list.remove(x): drops the first element equal to x
RECURSIVE ListRemove(_, _)
ListRemove(l, x) ==
    IF l = <<>> THEN <<>>
    ELSE IF Head(l) = x THEN Tail(l)
    ELSE <<Head(l)>> \o ListRemove(Tail(l), x)

\* for link in links[:]: if denylisted: links.remove(link)
RECURSIVE FilterLoop(_, _)
FilterLoop(copy, l) ==
    IF copy = <<>> THEN l
    ELSE FilterLoop(Tail(copy),
                    IF IsDenylisted(Head(copy)) THEN ListRemove(l, Head(copy)) ELSE l)

\* mutant: for link in links, the list that remove() shrinks
RECURSIVE InPlaceLoop(_, _)
InPlaceLoop(l, i) ==
    IF i > Len(l) THEN l
    ELSE IF IsDenylisted(l[i]) THEN InPlaceLoop(ListRemove(l, l[i]), i + 1)
    ELSE InPlaceLoop(l, i + 1)

FilterLinks_InPlace(l) == InPlaceLoop(l, 1)

\* lines 78-81
FilterLinks(l) == FilterLoop(l, l)

\* list(links): the set in some iteration order
RECURSIVE Orders(_)
Orders(S) ==
    IF S = {} THEN {<<>>}
    ELSE UNION {{<<x>> \o l : l \in Orders(S \ {x})} : x \in S}

Elems(l) == {l[i] : i \in DOMAIN l}

\* lines 78-81 for every link set and every order list() may give it, tabulated
EdgeLists == [S \in SUBSET RawTitles |-> {FilterLinks(order) : order \in Orders(S)}]

(***************************************************************************)
(* State.                                                                  *)
(***************************************************************************)
VARIABLES
    \* explore_path: arguments and locals
    start_page, target_page, max_iterations,
    pc, current_page, path, visited, iteration, available_links, chosen_link,
    outcome,
    \* shared by every get_links_from_page call of a run
    cache, semaphore,
    \* get_links_from_page: locals of each call (task)
    fpc, page_title, links, params, retry_count, wait_time, ret, ferr,
    \* what each call has seen of the source (history)
    response, attempts, throttles, npages, received, last_token,
    \* history of the run
    requests, oracle_calls, oracle_returns, fetch_calls

explore_vars ==
    <<start_page, target_page, max_iterations, pc, current_page, path, visited,
      iteration, available_links, chosen_link, outcome, oracle_calls,
      oracle_returns>>

task_vars ==
    <<fpc, page_title, links, params, retry_count, wait_time, ret, ferr,
      response, attempts, throttles, npages, received, last_token>>

vars == <<explore_vars, cache, semaphore, task_vars, requests, fetch_calls>>

\* task 0 is the call made by explore_path; 1..NumTasks are the concurrent calls
MainTask == 0

ConcTasks == 1..NumTasks

Tasks == {MainTask} \cup ConcTasks

NoTitle == <<>>

\* statuses of a response: 200, 429, another status below 400, a status from 400 up
Decodable == {"200", "2xx"}

TasksInit ==
    /\ fpc = [t \in Tasks |-> "idle"]
    /\ page_title = [t \in Tasks |-> NoTitle]
    /\ links = [t \in Tasks |-> {}]
    /\ params = [t \in Tasks |-> 0]
    /\ retry_count = [t \in Tasks |-> 0]
    /\ wait_time = [t \in Tasks |-> 0]
    /\ ret = [t \in Tasks |-> <<>>]
    /\ ferr = [t \in Tasks |-> "none"]
    /\ response = [t \in Tasks |-> "none"]
    /\ attempts = [t \in Tasks |-> 0]
    /\ throttles = [t \in Tasks |-> 0]
    /\ npages = [t \in Tasks |-> 0]
    /\ received = [t \in Tasks |-> {}]
    /\ last_token = [t \in Tasks |-> 0]

SharedInit ==
    /\ cache = <<>>
    /\ semaphore = K
    /\ requests = {}
    /\ oracle_calls = 0
    /\ oracle_returns = 0
    /\ fetch_calls = 0

\* explore_path(start_page, target_page, max_iterations) after lines 154-159
Init ==
    /\ start_page \in Starts
    /\ target_page \in Targets
    /\ max_iterations \in 0..MaxIter
    /\ pc = "loop"
    /\ current_page = start_page
    /\ path = <<start_page>>
    /\ visited = <<start_page>>
    /\ iteration = 0
    /\ available_links = <<>>
    /\ chosen_link = NoTitle
    /\ outcome = "none"
    /\ SharedInit
    /\ TasksInit

\* NumTasks coroutines about to call get_links_from_page on one cache and semaphore
ConcInit ==
    /\ start_page = NoTitle
    /\ target_page = NoTitle
    /\ max_iterations = 0
    /\ pc = "none"
    /\ current_page = NoTitle
    /\ path = <<>>
    /\ visited = <<>>
    /\ iteration = 0
    /\ available_links = <<>>
    /\ chosen_link = NoTitle
    /\ outcome = "none"
    /\ SharedInit
    /\ TasksInit

(***************************************************************************)
(* get_links_from_page                                                     *)
(***************************************************************************)
\* mutant: the test is on the cached list's truth value, so an empty list misses
CacheHit_Truthy(title) == title \in DOMAIN cache /\ cache[title] # <<>>

\* if page_title in cache (line 33)
CacheHit(title) == title \in DOMAIN cache

CachePut(title, l) ==
    [n \in DOMAIN cache \cup {title} |-> IF n = title THEN l ELSE cache[n]]

\* mutant: one retry too many
RetryAllowed_OffByOne(rc) == rc <= MAX_RETRIES

\* while retry_count < MAX_RETRIES (line 47)
RetryAllowed(rc) == rc < MAX_RETRIES

\* 2 ** retry_count (line 52)
Backoff(rc) == 2 ^ rc

\* mutant: retry_count is set once, before the pagination loop
RetryCountAtPage_Kept(rc) == rc

\* retry_count = 0 at the head of every pass of the pagination loop (line 46)
RetryCountAtPage(rc) == 0

\* mutant: each page's titles replace those collected before
Accumulate_Overwrite(old, raw) == raw

\* links.add(link["title"]) for every link of the page (lines 68-72)
Accumulate(old, raw) == old \cup raw

\* params.update(data["continue"]) (line 75)
NextParams(p, token) == token

\* the call itself, lines 33-46: a hit returns at once, a miss starts page one
GetLinksCall(t, title) ==
    /\ fetch_calls' = fetch_calls + 1
    /\ page_title' = [page_title EXCEPT ![t] = title]
    /\ links' = [links EXCEPT ![t] = {}]
    /\ params' = [params EXCEPT ![t] = 0]
    /\ retry_count' = [retry_count EXCEPT ![t] = 0]
    /\ wait_time' = [wait_time EXCEPT ![t] = 0]
    /\ ferr' = [ferr EXCEPT ![t] = "none"]
    /\ response' = [response EXCEPT ![t] = "none"]
    /\ attempts' = [attempts EXCEPT ![t] = 0]
    /\ throttles' = [throttles EXCEPT ![t] = 0]
    /\ npages' = [npages EXCEPT ![t] = 0]
    /\ received' = [received EXCEPT ![t] = {}]
    /\ last_token' = [last_token EXCEPT ![t] = 0]
    /\ IF CacheHit(title)
       THEN /\ fpc' = [fpc EXCEPT ![t] = "done"]
            /\ ret' = [ret EXCEPT ![t] = cache[title]]
       ELSE /\ fpc' = [fpc EXCEPT ![t] = "acquire"]
            /\ ret' = [ret EXCEPT ![t] = <<>>]
    /\ UNCHANGED <<cache, semaphore, requests>>

\* mutant: a permit is handed out whatever the value
CanAcquire_Unbounded(value) == TRUE

\* Semaphore.acquire takes a permit only while the value is positive (line 48)
CanAcquire(value) == value > 0

\* async with semaphore: async with session.get(...) (lines 48-49)
Acquire(t) ==
    /\ fpc[t] = "acquire"
    /\ CanAcquire(semaphore)
    /\ semaphore' = semaphore - 1
    /\ fpc' = [fpc EXCEPT ![t] = "inflight"]
    /\ attempts' = [attempts EXCEPT ![t] = @ + 1]
    /\ requests' = requests \cup
                     {[node |-> page_title[t], task |-> t, iter |-> iteration]}
    /\ UNCHANGED <<explore_vars, received, last_token, cache, fetch_calls, page_title, links, params,
                   retry_count, wait_time, ret, ferr, response, throttles, npages>>

\* status 429 (lines 50-54): count it and sleep, the permit still held
Throttled(t) ==
    /\ fpc[t] = "inflight"
    /\ retry_count' = [retry_count EXCEPT ![t] = @ + 1]
    /\ wait_time' = [wait_time EXCEPT ![t] = Backoff(retry_count[t] + 1)]
    /\ fpc' = [fpc EXCEPT ![t] = "sleep"]
    /\ response' = [response EXCEPT ![t] = "429"]
    /\ throttles' = [throttles EXCEPT ![t] = @ + 1]
    /\ UNCHANGED <<explore_vars, received, last_token, cache, semaphore, requests, fetch_calls,
                   page_title, links, params, ret, ferr, attempts, npages>>

\* the sleep is over; continue (line 55) leaves both blocks and tests line 47
\* (wait_time is not read again: it is cleared here)
WakeRetry(t) ==
    /\ fpc[t] = "sleep"
    /\ RetryAllowed(retry_count[t])
    /\ semaphore' = semaphore + 1
    /\ fpc' = [fpc EXCEPT ![t] = "acquire"]
    /\ wait_time' = [wait_time EXCEPT ![t] = 0]
    /\ UNCHANGED <<explore_vars, received, last_token, cache, requests, fetch_calls, page_title, links,
                   params, retry_count, ret, ferr, response, attempts,
                   throttles, npages>>

\* the sleep is over and the while's else clause raises (lines 65-66)
RetriesExceeded(t) ==
    /\ fpc[t] = "sleep"
    /\ ~RetryAllowed(retry_count[t])
    /\ semaphore' = semaphore + 1
    /\ fpc' = [fpc EXCEPT ![t] = "failed"]
    /\ ferr' = [ferr EXCEPT ![t] = "MaxRetries"]
    /\ UNCHANGED <<explore_vars, received, last_token, cache, requests, fetch_calls, page_title, links,
                   params, retry_count, wait_time, ret, response, attempts,
                   throttles, npages>>

\* a status from 400 up other than 429: raise_for_status raises (lines 56-57)
HttpError(t) ==
    /\ fpc[t] = "inflight"
    /\ semaphore' = semaphore + 1
    /\ fpc' = [fpc EXCEPT ![t] = "failed"]
    /\ ferr' = [ferr EXCEPT ![t] = "HTTPError"]
    /\ response' = [response EXCEPT ![t] = "4xx"]
    /\ UNCHANGED <<explore_vars, received, last_token, cache, requests, fetch_calls, page_title, links,
                   params, retry_count, wait_time, ret, attempts, throttles, npages>>

\* response.json() raises (lines 59-63); a status below 400 reaches it
DecodeError(t, status) ==
    /\ fpc[t] = "inflight"
    /\ status \in Decodable
    /\ semaphore' = semaphore + 1
    /\ fpc' = [fpc EXCEPT ![t] = "failed"]
    /\ ferr' = [ferr EXCEPT ![t] = "DecodeError"]
    /\ response' = [response EXCEPT ![t] = status]
    /\ UNCHANGED <<explore_vars, received, last_token, cache, requests, fetch_calls, page_title, links,
                   params, retry_count, wait_time, ret, attempts, throttles, npages>>

\* mutant: the links collected so far are cached after every page
PageReceived_CachesPartial(t, status, raw, token) ==
    /\ fpc[t] = "inflight"
    /\ status \in Decodable
    /\ npages[t] + 1 < MaxPages
    /\ semaphore' = semaphore + 1
    /\ links' = [links EXCEPT ![t] = @ \cup raw]
    /\ params' = [params EXCEPT ![t] = token]
    /\ retry_count' = [retry_count EXCEPT ![t] = 0]
    /\ fpc' = [fpc EXCEPT ![t] = "acquire"]
    /\ response' = [response EXCEPT ![t] = status]
    /\ npages' = [npages EXCEPT ![t] = @ + 1]
    /\ attempts' = [attempts EXCEPT ![t] = 0]
    /\ throttles' = [throttles EXCEPT ![t] = 0]
    /\ received' = [received EXCEPT ![t] = @ \cup raw]
    /\ last_token' = [last_token EXCEPT ![t] = token]
    /\ \E l \in EdgeLists[links[t] \cup raw] : cache' = CachePut(page_title[t], l)
    /\ UNCHANGED <<explore_vars, requests, fetch_calls, page_title,
                   wait_time, ret, ferr>>

\* a decoded page with a "continue" key (lines 64-75, then 46)
PageReceived(t, status, raw, token) ==
    /\ fpc[t] = "inflight"
    /\ status \in Decodable
    /\ npages[t] + 1 < MaxPages
    /\ semaphore' = semaphore + 1
    /\ links' = [links EXCEPT ![t] = Accumulate(@, raw)]
    /\ params' = [params EXCEPT ![t] = NextParams(@, token)]
    /\ retry_count' = [retry_count EXCEPT ![t] = RetryCountAtPage(@)]
    /\ fpc' = [fpc EXCEPT ![t] = "acquire"]
    /\ response' = [response EXCEPT ![t] = status]
    /\ npages' = [npages EXCEPT ![t] = @ + 1]
    /\ attempts' = [attempts EXCEPT ![t] = 0]
    /\ throttles' = [throttles EXCEPT ![t] = 0]
    /\ received' = [received EXCEPT ![t] = @ \cup raw]
    /\ last_token' = [last_token EXCEPT ![t] = token]
    /\ UNCHANGED <<explore_vars, cache, requests, fetch_calls, page_title,
                   wait_time, ret, ferr>>

\* a decoded page without "continue" (lines 64-83): filter, cache, return
LastPage(t, status, raw) ==
    /\ fpc[t] = "inflight"
    /\ status \in Decodable
    /\ semaphore' = semaphore + 1
    /\ links' = [links EXCEPT ![t] = Accumulate(@, raw)]
    /\ \E l \in EdgeLists[Accumulate(links[t], raw)] :
          /\ ret' = [ret EXCEPT ![t] = l]
          /\ cache' = CachePut(page_title[t], l)
    /\ fpc' = [fpc EXCEPT ![t] = "done"]
    /\ response' = [response EXCEPT ![t] = status]
    /\ npages' = [npages EXCEPT ![t] = @ + 1]
    /\ received' = [received EXCEPT ![t] = @ \cup raw]
    /\ last_token' = [last_token EXCEPT ![t] = 0]
    /\ UNCHANGED <<explore_vars, requests, fetch_calls, page_title, params,
                   retry_count, wait_time, ferr, attempts, throttles>>

\* mutant: acquire and release are called by hand, with no try/finally
ReleasedOnCancel_None(at) == 0

\* a CancelledError thrown into the coroutine inside the async with semaphore
\* block leaves it through __aexit__, which releases (lines 48-55); thrown into
\* the wait for a permit, nothing was acquired (line 48)
ReleasedOnCancel(at) == IF at \in {"inflight", "sleep"} THEN 1 ELSE 0

\* the task running the call is cancelled at one of its awaits: the wait for a
\* permit, the exchange, or the backoff sleep (lines 48, 49, 54, 60)
Cancel(t) ==
    /\ fpc[t] \in {"acquire", "inflight", "sleep"}
    /\ semaphore' = semaphore + ReleasedOnCancel(fpc[t])
    /\ fpc' = [fpc EXCEPT ![t] = "cancelled"]
    /\ UNCHANGED <<explore_vars, received, last_token, cache, requests,
                   fetch_calls, page_title, links, params, retry_count,
                   wait_time, ret, ferr, response, attempts, throttles, npages>>

\* the coroutine's frame is gone once its caller has taken the result
TaskReturn(t) ==
    /\ fpc' = [fpc EXCEPT ![t] = "idle"]
    /\ page_title' = [page_title EXCEPT ![t] = NoTitle]
    /\ links' = [links EXCEPT ![t] = {}]
    /\ params' = [params EXCEPT ![t] = 0]
    /\ retry_count' = [retry_count EXCEPT ![t] = 0]
    /\ wait_time' = [wait_time EXCEPT ![t] = 0]
    /\ ret' = [ret EXCEPT ![t] = <<>>]
    /\ ferr' = [ferr EXCEPT ![t] = "none"]
    /\ response' = [response EXCEPT ![t] = "none"]
    /\ attempts' = [attempts EXCEPT ![t] = 0]
    /\ throttles' = [throttles EXCEPT ![t] = 0]
    /\ npages' = [npages EXCEPT ![t] = 0]
    /\ received' = [received EXCEPT ![t] = {}]
    /\ last_token' = [last_token EXCEPT ![t] = 0]

(***************************************************************************)
(* explore_path                                                            *)
(***************************************************************************)
\* chosen_link.strip() (line 139)
Proposal(reply) == Strip(reply)

\* mutant: the empty list is not detected
NoLinks_Never(l) == FALSE

\* if not available_links (line 168)
NoLinks(l) == l = <<>>

\* mutant: the fallback takes the last link, l[-1]
Validate_Last(chosen, l) == IF chosen \in Elems(l) THEN chosen ELSE l[Len(l)]

\* mutant: the proposal is taken without the membership test
Validate_Unchecked(chosen, l) == chosen

\* lines 174-178: the proposal if it is in the list, else the first link
Validate(chosen, l) == IF chosen \in Elems(l) THEN chosen ELSE l[1]

\* range(max_iterations) is exhausted (lines 161, 185-186)
MaxIterationsReached ==
    /\ pc = "loop"
    /\ iteration >= max_iterations
    /\ pc' = "returned"
    /\ outcome' = "MaxIterationsReached"
    /\ UNCHANGED <<start_page, target_page, max_iterations, current_page, path,
                   visited, iteration, available_links, chosen_link, oracle_calls,
                   oracle_returns, cache, semaphore, task_vars, requests,
                   fetch_calls>>

\* the test of line 162 succeeds (lines 162-164)
TargetReached ==
    /\ pc = "loop"
    /\ iteration < max_iterations
    /\ SameTarget(current_page, target_page)
    /\ pc' = "returned"
    /\ outcome' = "TargetReached"
    /\ UNCHANGED <<start_page, target_page, max_iterations, current_page, path,
                   visited, iteration, available_links, chosen_link, oracle_calls,
                   oracle_returns, cache, semaphore, task_vars, requests,
                   fetch_calls>>

\* await get_links_from_page(current_page, ...) (line 167)
CallFetch ==
    /\ pc = "loop"
    /\ iteration < max_iterations
    /\ ~SameTarget(current_page, target_page)
    /\ pc' = "fetch"
    /\ GetLinksCall(MainTask, current_page)
    /\ UNCHANGED <<start_page, target_page, max_iterations, current_page, path,
                   visited, iteration, available_links, chosen_link, outcome,
                   oracle_calls, oracle_returns>>

\* mutant: the error is caught and taken for an empty list
FetchRaised_Swallowed ==
    /\ pc = "fetch"
    /\ fpc[MainTask] = "failed"
    /\ available_links' = <<>>
    /\ iteration' = iteration + 1
    /\ pc' = "loop"
    /\ TaskReturn(MainTask)
    /\ UNCHANGED <<start_page, target_page, max_iterations, current_page, path,
                   visited, chosen_link, outcome, oracle_calls, oracle_returns,
                   cache, semaphore, requests, fetch_calls>>

\* the fetch raised: nothing in explore_path catches it
FetchRaised ==
    /\ pc = "fetch"
    /\ fpc[MainTask] = "failed"
    /\ pc' = "raised"
    /\ outcome' = ferr[MainTask]
    /\ UNCHANGED <<start_page, target_page, max_iterations, current_page, path,
                   visited, iteration, available_links, chosen_link, oracle_calls,
                   oracle_returns, cache, semaphore, task_vars, requests,
                   fetch_calls>>

\* mutant: break, as the message "Stopping search." says
Stall_Break ==
    /\ pc = "fetch"
    /\ fpc[MainTask] = "done"
    /\ ret[MainTask] = <<>>
    /\ available_links' = ret[MainTask]
    /\ pc' = "returned"
    /\ outcome' = "MaxIterationsReached"
    /\ fpc' = [fpc EXCEPT ![MainTask] = "idle"]
    /\ UNCHANGED <<start_page, target_page, max_iterations, current_page, path,
                   visited, iteration, chosen_link, oracle_calls, cache, semaphore,
                   requests, fetch_calls, page_title, links, params, retry_count,
                   wait_time, ret, ferr, response, attempts, throttles, npages,
                   received, last_token, oracle_returns>>

\* the fetch returned an empty list: continue (lines 168-170)
Stall ==
    /\ pc = "fetch"
    /\ fpc[MainTask] = "done"
    /\ NoLinks(ret[MainTask])
    /\ available_links' = ret[MainTask]
    /\ iteration' = iteration + 1
    /\ pc' = "loop"
    /\ TaskReturn(MainTask)
    /\ UNCHANGED <<start_page, target_page, max_iterations, current_page, path,
                   visited, chosen_link, outcome, oracle_calls, oracle_returns,
                   cache, semaphore, requests, fetch_calls>>

\* the fetch returned links: await choose_next_link(...) (line 172)
AskOracle ==
    /\ pc = "fetch"
    /\ fpc[MainTask] = "done"
    /\ ~NoLinks(ret[MainTask])
    /\ available_links' = ret[MainTask]
    /\ oracle_calls' = oracle_calls + 1
    /\ pc' = "oracle"
    /\ TaskReturn(MainTask)
    /\ UNCHANGED <<start_page, target_page, max_iterations, current_page, path,
                   visited, iteration, chosen_link, outcome, oracle_returns, cache,
                   semaphore, requests, fetch_calls>>

\* generate_response returned and choose_next_link stripped the reply
\* (lines 138-140)
OracleReply(reply) ==
    /\ pc = "oracle"
    /\ chosen_link' = Proposal(reply)
    /\ pc' = "validate"
    /\ UNCHANGED <<start_page, target_page, max_iterations, current_page, path,
                   visited, iteration, available_links, outcome, oracle_calls,
                   oracle_returns, cache, semaphore, task_vars, requests,
                   fetch_calls>>

\* mutant: a page already in the history is not recorded again
Visit_Once(v, page) == IF page \in Elems(v) THEN v ELSE Append(v, page)

\* visited.append(current_page) (line 182)
Visit(v, page) == Append(v, page)

\* choose_next_link returned to explore_path, which validates the chosen link
\* and moves to it (lines 172-183)
Advance ==
    /\ pc = "validate"
    /\ oracle_returns' = oracle_returns + 1
    /\ IF chosen_link \notin Elems(available_links) /\ available_links = <<>>
       THEN \* available_links[0] of line 177 raises IndexError
            /\ pc' = "raised"
            /\ outcome' = "IndexError"
            /\ UNCHANGED <<current_page, path, visited, iteration, chosen_link>>
       ELSE /\ chosen_link' = Validate(chosen_link, available_links)
            /\ current_page' = chosen_link'
            /\ path' = Append(path, chosen_link')
            /\ visited' = Visit(visited, chosen_link')
            /\ iteration' = iteration + 1
            /\ pc' = "loop"
            /\ outcome' = outcome
    /\ UNCHANGED <<start_page, target_page, max_iterations, available_links,
                   oracle_calls, cache, semaphore, task_vars, requests, fetch_calls>>

\* generate_content_async or response.text raised (lines 115-117)
OracleFailed ==
    /\ pc = "oracle"
    /\ pc' = "raised"
    /\ outcome' = "OracleError"
    /\ UNCHANGED <<start_page, target_page, max_iterations, current_page, path,
                   visited, iteration, available_links, chosen_link, oracle_calls,
                   oracle_returns, cache, semaphore, task_vars, requests,
                   fetch_calls>>

(***************************************************************************)
(* The run of explore_path.                                                *)
(***************************************************************************)
Next ==
    \/ MaxIterationsReached
    \/ TargetReached
    \/ CallFetch
    \/ Acquire(MainTask)
    \/ Throttled(MainTask)
    \/ WakeRetry(MainTask)
    \/ RetriesExceeded(MainTask)
    \/ HttpError(MainTask)
    \/ \E status \in Decodable : DecodeError(MainTask, status)
    \/ \E status \in Decodable, raw \in SUBSET RawTitles, token \in Tokens :
          PageReceived(MainTask, status, raw, token)
    \/ \E status \in Decodable, raw \in SUBSET RawTitles :
          LastPage(MainTask, status, raw)
    \/ FetchRaised
    \/ Stall
    \/ AskOracle
    \/ \E reply \in OracleReplies : OracleReply(reply)
    \/ Advance
    \/ OracleFailed

Spec == Init /\ [][Next]_vars

Terminated == pc \in {"returned", "raised"}

\* the event loop runs a coroutine that can run; the source and the oracle answer
FairSpec == Spec /\ WF_vars(Next)

(***************************************************************************)
(* Concurrent calls of get_links_from_page on one cache and one semaphore. *)
(***************************************************************************)
\* the title each concurrent call is made for: two titles, each asked for by
\* several calls
ConcTitle(t) == IF t % 2 = 1 THEN T_A ELSE T_b

\* the link set the source serves to the concurrent calls
ConcRaw == {{T_b, T_HelpB}}

\* the calls whose requests the source throttles, pages, or fails
ThrottledTasks == {1}

PagedTasks == {1}

FaultyTasks == {2}

\* the calls whose task may be cancelled: the one that is throttled and paged,
\* and one that finds all five permits taken
CancelledTasks == {1, 6}

\* the event loop runs the coroutines' first steps in the order they were created
ConcCall(t) ==
    /\ pc = "none"
    /\ fpc[t] = "idle"
    /\ \A u \in ConcTasks : u < t => fpc[u] # "idle"
    /\ GetLinksCall(t, ConcTitle(t))
    /\ UNCHANGED explore_vars

ConcNext ==
    \E t \in ConcTasks :
        \/ ConcCall(t)
        \/ Acquire(t)
        \/ t \in ThrottledTasks /\ Throttled(t)
        \/ WakeRetry(t)
        \/ RetriesExceeded(t)
        \/ t \in FaultyTasks /\ HttpError(t)
        \/ t \in FaultyTasks /\ DecodeError(t, "200")
        \/ t \in PagedTasks /\ \E raw \in ConcRaw, token \in Tokens :
                                  PageReceived(t, "200", raw, token)
        \/ \E raw \in ConcRaw : LastPage(t, "200", raw)
        \/ t \in CancelledTasks /\ Cancel(t)

ConcSpec == ConcInit /\ [][ConcNext]_vars

(***************************************************************************)
(* Properties.                                                             *)
(***************************************************************************)
\* the errors a failed call of the source or of the oracle raises
CallErrors == {"HTTPError", "DecodeError", "MaxRetries", "OracleError"}

\* C1: a run ends, and it ends by returning its path unless a call of the
\* source or of the oracle failed; at every moment the path has at most
\* max_iterations + 1 elements.
C1_ReturnsBoundedPath ==
    /\ [](Len(path) <= max_iterations + 1)
    /\ [](pc = "raised" => outcome \in CallErrors)
    /\ <>Terminated

\* a run that used its whole budget and returned a path of full length
C1_Witness ==
    /\ pc = "returned"
    /\ outcome = "MaxIterationsReached"
    /\ max_iterations = MaxIter
    /\ Len(path) = max_iterations + 1

\* C2: every path element after the first is one of the links cached, and so
\* returned by the fetch, for the element before it.
C2_PathFollowsEdges ==
    \A i \in 2..Len(path) :
        /\ path[i - 1] \in DOMAIN cache
        /\ path[i] \in Elems(cache[path[i - 1]])

\* a path that went to a link and came back, by accepted or replaced proposals
C2_Witness ==
    /\ Len(path) >= 3
    /\ path[3] = path[1]
    /\ path[2] # path[1]

\* the HTTP exchanges in flight: requests sent and not yet answered
InFlight == {t \in Tasks : fpc[t] = "inflight"}

\* the calls inside the async with semaphore block
Holders == {t \in Tasks : fpc[t] \in {"inflight", "sleep"}}

\* C3: however the concurrent calls interleave, page and retry, at most 5
\* exchanges are in flight at once, and the permits out are exactly those held.
C3_AtMostKInFlight ==
    /\ Cardinality(InFlight) <= 5
    /\ semaphore >= 0
    /\ semaphore + Cardinality(Holders) = K

\* all permits are out, five exchanges are in flight and another call waits
C3_Witness ==
    /\ Cardinality(InFlight) = 5
    /\ \E t \in ConcTasks : fpc[t] = "acquire"

\* C4: a call for a cached title returns the stored list at once, sends no
\* request and leaves the cache alone; so the requests for one title all
\* belong to one iteration of the run.
C4_CachedFetchIsFree ==
    /\ [][(pc = "loop" /\ pc' = "fetch" /\ current_page \in DOMAIN cache)
            => /\ fpc'[MainTask] = "done"
               /\ ret'[MainTask] = cache[current_page]
               /\ cache' = cache
               /\ requests' = requests]_vars
    /\ [](\A r1, r2 \in requests : r1.node = r2.node => r1.iter = r2.iter)
    /\ []((pc = "fetch" /\ fpc[MainTask] = "done" /\ response[MainTask] = "none")
            => /\ attempts[MainTask] = 0
               /\ current_page \in DOMAIN cache
               /\ ret[MainTask] = cache[current_page])

\* a revisit through a cycle, served from the cache
C4_Witness ==
    /\ pc = "fetch"
    /\ fpc[MainTask] = "done"
    /\ response[MainTask] = "none"
    /\ Len(path) = 3
    /\ path[3] = path[1]
    /\ \E r \in requests : r.node = current_page /\ r.iter = 0

\* C5: a call fails with MaxRetries exactly on the 5th consecutive 429 of one
\* exchange, which is never followed by another request of that exchange;
\* a call that gets its last page after at most 4 of them returns, cached.
C5_RetryCeiling ==
    \A t \in Tasks :
        /\ throttles[t] <= 5
        /\ attempts[t] <= 5
        /\ (fpc[t] = "failed" /\ ferr[t] = "MaxRetries") => throttles[t] = 5
        /\ throttles[t] = 5
             => \/ fpc[t] = "sleep"
                \/ fpc[t] = "failed" /\ ferr[t] = "MaxRetries" /\ attempts[t] = 5
        /\ (fpc[t] = "failed" /\ throttles[t] < 5)
             => ferr[t] \in {"HTTPError", "DecodeError"}
        /\ (fpc[t] = "done" /\ response[t] # "none")
             => /\ throttles[t] <= 4
                /\ page_title[t] \in DOMAIN cache
                /\ cache[page_title[t]] = ret[t]

\* the run was aborted by the 5th 429 of the second page's exchange
C5_Witness ==
    /\ pc = "raised"
    /\ outcome = "MaxRetries"
    /\ throttles[MainTask] = 5
    /\ attempts[MainTask] = 5
    /\ npages[MainTask] = 1

\* C6: with links at hand, a proposal that is one of them is the node appended;
\* any other proposal is replaced by the first link of the list as fetched, and
\* the run goes on.
C6_ValidateOrFirst ==
    /\ []((pc \in {"oracle", "validate"})
            => available_links # <<>> /\ available_links = cache[current_page])
    /\ [][(pc = "validate" /\ available_links # <<>>)
            => /\ pc' = "loop"
               /\ outcome' = "none"
               /\ current_page' = (IF \E i \in DOMAIN available_links :
                                        available_links[i] = chosen_link
                                   THEN chosen_link
                                   ELSE Head(available_links))
               /\ path' = Append(path, current_page')]_vars

\* the oracle proposed a title that is not among two fetched links
C6_Witness ==
    /\ pc = "validate"
    /\ Len(available_links) = 2
    /\ chosen_link \notin Elems(available_links)

\* C7: when start and target are equal once stripped, lower-cased and with
\* spaces replaced, the run returns the start alone and has made no fetch, no
\* request and no oracle call.
C7_EqualStartReturnsAtOnce ==
    Normalize(start_page) = Normalize(target_page)
        => /\ pc \in {"loop", "returned"}
           /\ path = <<start_page>>
           /\ fetch_calls = 0
           /\ oracle_calls = 0
           /\ requests = {}
           /\ cache = <<>>

\* a run returned at its first test though start and target differ as written
C7_Witness ==
    /\ pc = "returned"
    /\ outcome = "TargetReached"
    /\ start_page # target_page
    /\ path = <<start_page>>

\* C8: when the fetch of the current page returns no link, the iteration ends:
\* the counter advances by one, path, history and current page stay, no oracle
\* call is made and the run goes on.
C8_StallFrame ==
    [][(pc = "fetch" /\ fpc[MainTask] = "done" /\ ret[MainTask] = <<>>)
         => /\ iteration' = iteration + 1
            /\ path' = path
            /\ visited' = visited
            /\ current_page' = current_page
            /\ oracle_calls' = oracle_calls
            /\ pc' = "loop"
            /\ outcome' = "none"]_vars

\* an iteration was spent on a start page without links
C8_Witness ==
    /\ pc = "loop"
    /\ iteration = 1
    /\ max_iterations > 1
    /\ path = <<start_page>>
    /\ start_page \in DOMAIN cache
    /\ cache[start_page] = <<>>
    /\ oracle_calls = 0

\* C9: a cache key is a title a fetch was called for and requested; the cache
\* changes only in the step that completes a fetch, which leaves one entry for
\* that title and no other entry touched, and a fetch that fails, on whichever
\* page, writes nothing.
C9_CacheOnlyOnSuccess ==
    /\ [](\A n \in DOMAIN cache : \E r \in requests : r.node = n)
    /\ [][DOMAIN cache \subseteq DOMAIN cache']_vars
    /\ [][cache' # cache
            => \E t \in Tasks :
                  /\ fpc[t] = "inflight"
                  /\ fpc'[t] = "done"
                  /\ response'[t] \in Decodable
                  /\ DOMAIN cache' = DOMAIN cache \cup {page_title[t]}
                  /\ cache'[page_title[t]] = ret'[t]
                  /\ \A n \in DOMAIN cache \ {page_title[t]} :
                        cache'[n] = cache[n]]_vars
    /\ [][\A t \in Tasks : (fpc[t] # "failed" /\ fpc'[t] = "failed")
                              => cache' = cache]_vars

\* a fetch failed on its second page, after links of the first were collected
C9_Witness ==
    /\ pc = "raised"
    /\ outcome \in {"HTTPError", "DecodeError"}
    /\ npages[MainTask] = 1
    /\ links[MainTask] # {}
    /\ page_title[MainTask] \notin DOMAIN cache
    /\ DOMAIN cache # {}

\* C10: the list a fetch returns and caches holds each received title that
\* starts with none of the reserved prefixes, once, and nothing else.
C10_FilterExact ==
    \A t \in Tasks :
        (fpc[t] = "done" /\ response[t] # "none")
            => /\ Elems(ret[t]) = {x \in links[t] : ~IsDenylisted(x)}
               /\ Len(ret[t]) = Cardinality(Elems(ret[t]))
               /\ cache[page_title[t]] = ret[t]

\* two reserved titles were received among others, over two pages
C10_Witness ==
    /\ fpc[MainTask] = "done"
    /\ npages[MainTask] = 2
    /\ {T_HelpB, T_FileA, T_b} \subseteq links[MainTask]
    /\ ret[MainTask] # <<>>

\* C11: a failed fetch or a failed call of the oracle ends the run with that
\* error: the failure is raised to the caller in the next step, nothing is
\* returned, and no fetch, request or oracle call follows it.
C11_FailureEndsRun ==
    /\ [][(pc = "fetch" /\ fpc[MainTask] = "failed")
            => /\ pc' = "raised"
               /\ outcome' = ferr[MainTask]
               /\ outcome' \in {"HTTPError", "DecodeError", "MaxRetries"}
               /\ path' = path
               /\ requests' = requests
               /\ fetch_calls' = fetch_calls
               /\ oracle_calls' = oracle_calls]_vars
    /\ [][(pc = "oracle" /\ pc' # "validate")
            => /\ pc' = "raised"
               /\ outcome' = "OracleError"
               /\ path' = path
               /\ requests' = requests
               /\ fetch_calls' = fetch_calls
               /\ oracle_calls' = oracle_calls]_vars
    /\ [][pc # "raised"]_vars
    /\ [](pc = "raised" => outcome \in CallErrors)
    /\ [](pc = "returned" => outcome \in {"TargetReached", "MaxIterationsReached"})

\* the second fetch of a run failed, after one move
C11_Witness ==
    /\ pc = "raised"
    /\ outcome \in {"HTTPError", "MaxRetries"}
    /\ Len(path) = 2
    /\ fetch_calls = 2
    /\ oracle_calls = 1

\* C12: a permit is out only while an exchange is in flight: a call that
\* sleeps after a 429 holds none, so the calls that sleep never keep a
\* waiting call from getting a permit.
C12_BackoffHoldsNoPermit ==
    /\ semaphore = K - Cardinality(InFlight)
    /\ (InFlight = {} /\ \E t \in Tasks : fpc[t] = "acquire")
          => CanAcquire(semaphore) /\ semaphore = K

\* C13: of the concurrent calls for one uncached title only one sends
\* requests for it; the others send none and return the list that one cached.
C13_FirstWriterWins ==
    /\ \A r1, r2 \in requests : r1.node = r2.node => r1.task = r2.task
    /\ \A t, u \in ConcTasks :
          (t # u /\ page_title[t] = page_title[u] /\ fpc[t] = "done"
             /\ fpc[u] = "done")
            => response[t] = "none" \/ response[u] = "none"

\* C14: every request of a fetch is sent with the continuation token of the
\* response before it (none for the first), a fetch returns only after a
\* response without a token, and the titles it has collected, and the list it
\* returns, are the union of the titles of all its pages, each title once.
C14_PaginationComplete ==
    \A t \in Tasks :
        /\ links[t] = received[t]
        /\ fpc[t] \in {"acquire", "inflight", "sleep"}
             => /\ params[t] = last_token[t]
                /\ (npages[t] = 0) = (last_token[t] = 0)
                /\ npages[t] >= 1 => last_token[t] \in Tokens
        /\ (fpc[t] = "done" /\ response[t] # "none")
             => /\ last_token[t] = 0
                /\ npages[t] >= 1
                /\ Elems(ret[t]) = {x \in received[t] : ~IsDenylisted(x)}
                /\ Len(ret[t]) = Cardinality(Elems(ret[t]))

\* a fetch received three titles over two pages and returned the two that
\* are not reserved
C14_Witness ==
    /\ fpc[MainTask] = "done"
    /\ npages[MainTask] = 2
    /\ params[MainTask] \in Tokens
    /\ received[MainTask] = {T_A, T_b, T_HelpB}
    /\ Len(ret[MainTask]) = 2

\* C15: a response whose status is neither 200 nor 429 fails the fetch with
\* the HTTP error at once: its body is not decoded, no request follows it
\* and nothing is cached for the title.
C15_Non200Fails ==
    \A t \in Tasks :
        response[t] \notin {"none", "200", "429"}
            => /\ fpc[t] = "failed"
               /\ ferr[t] = "HTTPError"
               /\ page_title[t] \notin DOMAIN cache

\* C16: cancelling a call while it waits for a permit, has an exchange in
\* flight, or sleeps before a retry gives back the permit it holds, if any, and
\* no other; once no call is inside the semaphore block all 5 permits are free.
C16_CancelReleases ==
    /\ [][\A t \in Tasks :
            (fpc[t] # "cancelled" /\ fpc'[t] = "cancelled")
              => /\ fpc[t] \in {"acquire", "inflight", "sleep"}
                 /\ semaphore' = semaphore + (IF t \in Holders THEN 1 ELSE 0)
                 /\ semaphore' = K - Cardinality(Holders \ {t})]_vars
    /\ []((\A t \in Tasks : fpc[t] \in {"idle", "done", "failed", "cancelled"})
            => semaphore = K)
    /\ [](\A t \in Tasks : fpc[t] = "cancelled"
            => semaphore <= K /\ semaphore = K - Cardinality(Holders))

\* every call has ended; one was cancelled in a backoff sleep, one before it
\* had sent anything
C16_Witness ==
    /\ \A t \in ConcTasks : fpc[t] \in {"done", "failed", "cancelled"}
    /\ fpc[1] = "cancelled"
    /\ wait_time[1] = 4
    /\ fpc[6] = "cancelled"
    /\ attempts[6] = 0
    /\ semaphore = K

\* C17: the counter of 429 responses is that of the exchange under way: it is
\* zero when the exchange of a page starts, whatever happened on the pages
\* before, and after the k-th 429 in a row the call sleeps 2^k seconds.
C17_BackoffPerExchange ==
    /\ [](\A t \in Tasks :
            /\ retry_count[t] = throttles[t]
            /\ fpc[t] = "sleep"
                 => /\ retry_count[t] \in 1..MAX_RETRIES
                    /\ wait_time[t] = 2 ^ throttles[t]
            /\ (fpc[t] = "acquire" /\ attempts[t] = 0) => retry_count[t] = 0)
    /\ [][\A t \in Tasks :
            npages'[t] = npages[t] + 1 /\ fpc'[t] = "acquire"
                => retry_count'[t] = 0 /\ attempts'[t] = 0]_vars
    /\ [][\A t \in Tasks :
            fpc[t] = "inflight" /\ fpc'[t] = "sleep"
                => /\ retry_count'[t] = retry_count[t] + 1
                   /\ wait_time'[t] = 2 ^ (retry_count[t] + 1)]_vars

\* the third 429 in a row on the second page of a fetch: the call sleeps 8
C17_Witness ==
    /\ fpc[MainTask] = "sleep"
    /\ npages[MainTask] = 1
    /\ attempts[MainTask] = 3
    /\ retry_count[MainTask] = 3
    /\ wait_time[MainTask] = 8

\* C18: a run that returns a path whose last page equals the target under
\* the comparison of line 162 has ended by the "Target page reached!"
\* return, also when that page was appended in the last iteration.
C18_TargetMeansReached ==
    (pc = "returned" /\ SameTarget(path[Len(path)], target_page))
        => outcome = "TargetReached"

\* the run has fetched its current page and got the empty list for it
StalledOnCurrent ==
    /\ current_page \in DOMAIN cache
    /\ cache[current_page] = <<>>

\* C19: once the current page's list is empty the run stays on that page:
\* every later iteration gets the empty list from the cache, no request and no
\* oracle call is made, the path stays as it is, and the run ends by
\* exhausting its iterations with that page last in the path.
C19_StallIsPermanent ==
    /\ [][StalledOnCurrent
            => /\ StalledOnCurrent'
               /\ current_page' = current_page
               /\ path' = path
               /\ cache' = cache
               /\ requests' = requests
               /\ oracle_calls' = oracle_calls
               /\ pc' \in {"loop", "fetch", "returned"}]_vars
    /\ []((StalledOnCurrent /\ pc = "fetch")
            => fpc[MainTask] = "done" /\ ret[MainTask] = <<>>)
    /\ []((StalledOnCurrent /\ Terminated)
            => /\ pc = "returned"
               /\ outcome = "MaxIterationsReached"
               /\ path[Len(path)] = current_page
               /\ iteration = max_iterations)
    /\ (StalledOnCurrent
          ~> (pc = "returned" /\ outcome = "MaxIterationsReached"))

\* the run moved once, stalled on the new page for its two other iterations,
\* the second time out of the cache, and returned
C19_Witness ==
    /\ pc = "returned"
    /\ outcome = "MaxIterationsReached"
    /\ StalledOnCurrent
    /\ Len(path) = 2
    /\ iteration = 3
    /\ fetch_calls = 3
    /\ oracle_calls = 1
    /\ \A r \in requests : r.iter <= 1

\* C20: at every moment of a run the visited history is the path itself, its
\* last element is the current page (so the oracle is handed a history that
\* ends with the page it is asked about), and the path has one element more
\* than there are calls of the oracle that have returned to the run.
C20_VisitedIsPath ==
    /\ visited = path
    /\ Len(path) = 1 + oracle_returns
    /\ path[Len(path)] = current_page
    /\ oracle_returns <= oracle_calls
    /\ oracle_calls <= oracle_returns + 1
    /\ (oracle_calls = oracle_returns + 1)
          = \/ pc \in {"oracle", "validate"}
            \/ pc = "raised" /\ outcome = "OracleError"

\* the oracle is being asked for the third time, on a page the run has already
\* been on
C20_Witness ==
    /\ pc = "oracle"
    /\ oracle_calls = 3
    /\ oracle_returns = 2
    /\ Len(visited) = 3
    /\ visited[3] = visited[1]
    /\ visited[3] = current_page

====
